---- MODULE Spec2Model ----
(***************************************************************************)
(* Random Linear Network Coding over GF(2^8): the GaloisField arithmetic,  *)
(* the NetworkCodingEncoder and the NetworkCodingDecoder of the ns-3       *)
(* network-coding module, as state machines.                               *)
(***************************************************************************)
EXTENDS Integers, Sequences, FiniteSets, TLC

(***************************************************************************)
(* Bounds of the model.                                                    *)
(***************************************************************************)
\* generationSize given to the encoder's and the decoder's constructors
generationSize == 2
\* packetSize given to the encoder's and the decoder's constructors
packetSize == 1
\* generation IDs are capped: NextGeneration is not taken beyond MaxGen
MaxGen == 1

(***************************************************************************)
(* GaloisField (src/model/galois-field.h, implementation part)             *)
(***************************************************************************)
FIELD_SIZE == 256
poly == 285

Byte == 0 .. (FIELD_SIZE - 1)

RECURSIVE BitXor(_, _)
\* C++ operator ^ on unsigned integers
BitXor(a, b) ==
  IF a = 0 THEN b
  ELSE IF b = 0 THEN a
  ELSE 2 * BitXor(a \div 2, b \div 2) + ((a + b) % 2)

\* one pass of the generator loop of InitTables: shift left, reduce by poly
MulByAlpha(v) ==
  LET y == (2 * v) % 65536
  IN  IF (y \div 256) % 2 = 1 THEN BitXor(y, poly) % 256 ELSE y

RECURSIVE Tabulate(_, _, _)
\* the function f restricted to lo .. hi, as an explicitly stored array
Tabulate(f, lo, hi) ==
  IF lo = hi THEN lo :> f[lo]
  ELSE LET mid == (lo + hi) \div 2
       IN  Tabulate(f, lo, mid) @@ Tabulate(f, mid + 1, hi)

\* MulByAlpha tabulated over the bytes
AlphaTable == Tabulate([v \in Byte |-> MulByAlpha(v)], 0, FIELD_SIZE - 1)

RECURSIVE Passes(_, _)
\* n passes of the generator loop, starting from v
Passes(v, n) == IF n = 0 THEN v ELSE Passes(AlphaTable[v], n - 1)

\* 16 passes of the generator loop, tabulated
Alpha16Table == Tabulate([v \in Byte |-> Passes(v, 16)], 0, FIELD_SIZE - 1)

\* the generator's value at the start of iteration i of the loop
\* (taken in blocks of 16 passes, which keeps the evaluation shallow)
GenX[i \in 0 .. (FIELD_SIZE - 1)] ==
  IF i = 0 THEN 1
  ELSE IF i % 16 = 0 THEN Alpha16Table[GenX[i - 16]]
  ELSE AlphaTable[GenX[i - 1]]

GenTable == Tabulate(GenX, 0, FIELD_SIZE - 2)

\* m_expTable after InitTables: 2 * FIELD_SIZE entries, the last one never
\* written; the second loop copies entry i - 255, itself a copy for i = 510
m_expTable ==
  Tabulate([i \in 0 .. (2 * FIELD_SIZE - 1) |->
              IF i < 2 * FIELD_SIZE - 1
              THEN GenTable[i % (FIELD_SIZE - 1)] % 256
              ELSE 0],
           0, 2 * FIELD_SIZE - 1)

\* m_logTable after InitTables: the last write to each slot, 0 where none
m_logTable ==
  Tabulate([v \in Byte |->
              IF v = 0 THEN 0
              ELSE LET hits == {i \in 0 .. (FIELD_SIZE - 2) : GenTable[i] = v}
                   IN  IF hits = {} THEN 0
                       ELSE CHOOSE i \in hits : \A j \in hits : j <= i],
           0, FIELD_SIZE - 1)

\* mutant: integer addition modulo 256
AddArithmetic(a, b) == (a + b) % FIELD_SIZE

Add(a, b) == BitXor(a, b)

\* mutant: integer subtraction modulo 256
SubtractArithmetic(a, b) == (a - b + FIELD_SIZE) % FIELD_SIZE

Subtract(a, b) == Add(a, b)

\* mutant: the sum of the logs reduced modulo FIELD_SIZE
MultiplyModFieldSize(a, b) ==
  IF a = 0 \/ b = 0 THEN 0
  ELSE LET sum == m_logTable[a] + m_logTable[b]
       IN  m_expTable[IF sum >= FIELD_SIZE - 1 THEN sum % FIELD_SIZE ELSE sum]

Multiply(a, b) ==
  IF a = 0 \/ b = 0 THEN 0
  ELSE LET sum == m_logTable[a] + m_logTable[b]
       IN  m_expTable[IF sum >= FIELD_SIZE - 1 THEN sum % (FIELD_SIZE - 1) ELSE sum]

\* mutant: the operands of the division exchanged
DivideExchanged(a, b) ==
  IF a = 0 THEN 0
  ELSE IF b = 0 THEN 0
  ELSE LET diff == m_logTable[b] - m_logTable[a]
       IN  m_expTable[IF diff < 0 THEN diff + (FIELD_SIZE - 1) ELSE diff]

Divide(a, b) ==
  IF b = 0 THEN 0
  ELSE IF a = 0 THEN 0
  ELSE LET diff == m_logTable[a] - m_logTable[b]
       IN  m_expTable[IF diff < 0 THEN diff + (FIELD_SIZE - 1) ELSE diff]

\* mutant: the antilog index of the inverse one too low
InverseOneLow(a) ==
  IF a = 0 THEN 0
  ELSE m_expTable[(FIELD_SIZE - 2) - m_logTable[a]]

Inverse(a) ==
  IF a = 0 THEN 0
  ELSE m_expTable[(FIELD_SIZE - 1) - m_logTable[a]]


(***************************************************************************)
(* Vectors (std::vector<uint8_t>) are functions on 0 .. n-1.               *)
(***************************************************************************)
Size(vec) == Cardinality(DOMAIN vec)

\* the vector of n entries whose i-th entry is f[i]
MakeVector(f, n) == IF n = 0 THEN << >> ELSE Tabulate(f, 0, n - 1)

Min(S) == CHOOSE m \in S : \A o \in S : m <= o

\* the absent packet: a null Ptr<Packet>
nullptr == [null |-> TRUE]

(***************************************************************************)
(* Inputs of the model.                                                    *)
(***************************************************************************)
\* sequence numbers a caller passes to AddPacket and GenerateUncodedPacket
SeqNums == 0 .. generationSize
\* values the random coefficient generator is taken to return, within [1,255]
RandCoefs == {1, 2}
\* bytes of the payloads a caller passes to AddPacket
DataBytes == {83, 202}
\* lengths of the payloads a caller passes to AddPacket
DataLens == {packetSize - 1, packetSize, packetSize + 1}
\* payloads a caller passes to AddPacket
Payloads ==
  UNION {{MakeVector(f, n) : f \in [0 .. (n - 1) -> DataBytes]} : n \in DataLens}
\* the source packet a sender creates for sequence number s
SourcePacket(s) ==
  MakeVector([j \in 0 .. (packetSize - 1) |-> (16 * s + 7 * j + 3) % 256],
             packetSize)

VARIABLES
  enc,   \* the NetworkCodingEncoder: m_generationPackets, m_currentGeneration
  dec,   \* the NetworkCodingDecoder: m_coefficients, m_codedPayloads,
         \* m_decoded, m_decodedPackets, m_currentGeneration, m_packetSize
  ret,   \* the last call made and the value it returned
  app    \* the NetworkCodingUdpApplication that owns enc and dec: its
         \* generation tracking, its reliability fields, its pending events
         \* and the ACKs it has sent

vars == <<enc, dec, ret, app>>

(***************************************************************************)
(* NetworkCodingEncoder (src/model/network-coding-encoder.cc)              *)
(***************************************************************************)
\* CreateObject<NetworkCodingEncoder> (generationSize, packetSize)
NewEncoder == [m_generationPackets |-> << >>, m_currentGeneration |-> 0]

EncoderInit == enc = NewEncoder

RECURSIVE SortedKeysDescending(_)
\* mutant: the keys in descending order
SortedKeysDescending(S) ==
  IF S = {} THEN << >>
  ELSE LET m == CHOOSE k \in S : \A o \in S : o <= k
       IN  <<m>> \o SortedKeysDescending(S \ {m})

\* the keys of the std::map in iteration (ascending) order
RECURSIVE SortedKeys(_)
SortedKeys(S) ==
  IF S = {} THEN << >>
  ELSE LET m == Min(S) IN <<m>> \o SortedKeys(S \ {m})

\* mutant: the payload stored as passed in, neither padded nor truncated
NormalizePacketAsPassed(data) == data

\* the packet AddPacket stores: the input padded with zeros or truncated
NormalizePacket(data) ==
  MakeVector([i \in 0 .. (packetSize - 1) |->
                IF i < Size(data) THEN data[i] ELSE 0],
             packetSize)

GetPacketCount == Size(enc.m_generationPackets)

IsGenerationComplete == Size(enc.m_generationPackets) >= generationSize

GetSequenceNumbers == DOMAIN enc.m_generationPackets

\* mutant: the capacity test off by one
BufferFullOffByOne(e) == Size(e.m_generationPackets) > generationSize

\* AddPacket's capacity test
BufferFull(e) == Size(e.m_generationPackets) >= generationSize

\* mutant: no duplicate test, the map entry is overwritten
AlreadyPresentNever(e, seqNum) == FALSE

\* AddPacket's duplicate test
AlreadyPresent(e, seqNum) == seqNum \in DOMAIN e.m_generationPackets

\* mutant: a coded packet only from a complete generation
BufferEmptyUnlessComplete(e) == Size(e.m_generationPackets) < generationSize

\* GenerateCodedPacket's validation
BufferEmpty(e) == e.m_generationPackets = << >>

AddPacket(data, seqNum) ==
  IF BufferFull(enc)
  THEN /\ ret' = [op |-> "AddPacket", val |-> FALSE]
       /\ UNCHANGED <<enc, dec, app>>
  ELSE IF AlreadyPresent(enc, seqNum)
  THEN /\ ret' = [op |-> "AddPacket", val |-> FALSE]
       /\ UNCHANGED <<enc, dec, app>>
  ELSE /\ enc' = [enc EXCEPT !.m_generationPackets =
                    (seqNum :> NormalizePacket(data)) @@ @]
       /\ ret' = [op |-> "AddPacket", val |-> TRUE]
       /\ UNCHANGED <<dec, app>>

RECURSIVE CodedByteUnweighted(_, _, _, _)
\* mutant: the packets are accumulated without their coefficients
CodedByteUnweighted(coefficients, packets, i, n) ==
  IF n = 0 THEN 0
  ELSE LET rest == CodedByteUnweighted(coefficients, packets, i, n - 1)
           k == n - 1
       IN  IF k < generationSize /\ coefficients[k] # 0
           THEN Add(rest, packets[k][i])
           ELSE rest

RECURSIVE CodedByte(_, _, _, _)
\* codedPayload[i] after the first n of the buffered packets (in iteration
\* order) have been accumulated
CodedByte(coefficients, packets, i, n) ==
  IF n = 0 THEN 0
  ELSE LET rest == CodedByte(coefficients, packets, i, n - 1)
           k == n - 1
       IN  IF k < generationSize /\ coefficients[k] # 0
           THEN Add(rest, Multiply(coefficients[k], packets[k][i]))
           ELSE rest

\* the coded payload of a coefficient vector over the packets
CodedPayload(coefficients, packets) ==
  MakeVector([i \in 0 .. (packetSize - 1) |->
                CodedByte(coefficients, packets, i, Size(packets))],
             packetSize)

\* draws: the values dis(gen) returns, one per buffered packet
GenerateCodedPacket(draws) ==
  IF BufferEmpty(enc)
  THEN /\ ret' = [op |-> "GenerateCodedPacket", val |-> nullptr]
       /\ UNCHANGED <<enc, dec, app>>
  ELSE LET keys == SortedKeys(DOMAIN enc.m_generationPackets)
           coefficients ==
             MakeVector([k \in 0 .. (generationSize - 1) |->
                           IF k < Len(keys) THEN draws[k] ELSE 0],
                        generationSize)
           packets ==
             MakeVector([k \in 0 .. (Len(keys) - 1) |->
                           enc.m_generationPackets[keys[k + 1]]],
                        Len(keys))
           codedPayload == CodedPayload(coefficients, packets)
       IN  /\ ret' = [op |-> "GenerateCodedPacket",
                      val |-> [generationId |-> enc.m_currentGeneration,
                               generationSize |-> generationSize,
                               coefficients |-> coefficients,
                               payload |-> codedPayload]]
           /\ UNCHANGED <<enc, dec, app>>

\* mutant: the identity coefficient is set at index seqNum
GenerateUncodedPacketAtSeqNum(seqNum) ==
  IF seqNum \notin DOMAIN enc.m_generationPackets
  THEN /\ ret' = [op |-> "GenerateUncodedPacket", val |-> nullptr]
       /\ UNCHANGED <<enc, dec, app>>
  ELSE /\ ret' = [op |-> "GenerateUncodedPacket",
                  val |-> [generationId |-> enc.m_currentGeneration,
                           generationSize |-> generationSize,
                           coefficients |->
                             MakeVector([k \in 0 .. (generationSize - 1) |->
                                           IF k = seqNum THEN 1 ELSE 0],
                                        generationSize),
                           payload |-> enc.m_generationPackets[seqNum]]]
       /\ UNCHANGED <<enc, dec, app>>

GenerateUncodedPacket(seqNum) ==
  IF seqNum \notin DOMAIN enc.m_generationPackets
  THEN /\ ret' = [op |-> "GenerateUncodedPacket", val |-> nullptr]
       /\ UNCHANGED <<enc, dec, app>>
  ELSE LET position ==
             Cardinality({s \in DOMAIN enc.m_generationPackets : s < seqNum})
           coefficients ==
             MakeVector([k \in 0 .. (generationSize - 1) |->
                           IF k = position THEN 1 ELSE 0],
                        generationSize)
       IN  /\ ret' = [op |-> "GenerateUncodedPacket",
                      val |-> [generationId |-> enc.m_currentGeneration,
                               generationSize |-> generationSize,
                               coefficients |-> coefficients,
                               payload |-> enc.m_generationPackets[seqNum]]]
           /\ UNCHANGED <<enc, dec, app>>

\* mutant: the generation ID advances, the buffer is kept
EncoderNextGenerationKeepsBuffer ==
  /\ enc.m_currentGeneration < MaxGen
  /\ enc' = [enc EXCEPT !.m_currentGeneration = enc.m_currentGeneration + 1]
  /\ ret' = [op |-> "NextGeneration", val |-> TRUE]
  /\ UNCHANGED <<dec, app>>

EncoderNextGeneration ==
  /\ enc.m_currentGeneration < MaxGen
  /\ enc' = [m_generationPackets |-> << >>,
             m_currentGeneration |-> enc.m_currentGeneration + 1]
  /\ ret' = [op |-> "NextGeneration", val |-> TRUE]
  /\ UNCHANGED <<dec, app>>

\* mutant: the value RemoveHeader returns is not looked at
HeaderAcceptedAlways(p) == TRUE

(***************************************************************************)
(* NetworkCodingHeader (wire header of a coded packet)                     *)
(***************************************************************************)
\* RemoveHeader succeeds: Deserialize accepts the header the packet carries
HeaderAccepted(p) ==
  /\ Size(p.coefficients) = p.generationSize
  /\ ~(p.generationSize = 0 \/ p.generationSize > 255)

(***************************************************************************)
(* NetworkCodingDecoder (src/model/network-coding-decoder.cc)              *)
(***************************************************************************)
Rows == 0 .. (generationSize - 1)

ZeroMatrix(cols) ==
  MakeVector([i \in Rows |-> MakeVector([j \in 0 .. (cols - 1) |-> 0], cols)],
             generationSize)

\* CreateObject<NetworkCodingDecoder> (generationSize, packetSize)
NewDecoder ==
  [m_coefficients |-> ZeroMatrix(generationSize),
   m_codedPayloads |-> ZeroMatrix(packetSize),
   m_decoded |-> FALSE,
   m_decodedPackets |-> << >>,
   m_currentGeneration |-> 0,
   m_packetSize |-> packetSize,
   m_generationSize |-> generationSize,
   m_receivedSequences |-> {}]

DecoderInit == dec = NewDecoder

\* std::swap of rows a and b
SwapRows(matrix, a, b) ==
  MakeVector([i \in Rows |-> IF i = a THEN matrix[b]
                             ELSE IF i = b THEN matrix[a] ELSE matrix[i]],
             generationSize)

RECURSIVE RankColumns(_, _, _)
\* the column loop of CalculateRank from column j on, rank pivots found so far
RankColumns(matrix, j, rank) ==
  IF j >= generationSize THEN rank
  ELSE LET found == {r \in Rows : r >= rank /\ matrix[r][j] # 0}
       IN  IF found = {} THEN RankColumns(matrix, j + 1, rank)
           ELSE LET pivotRow == Min(found)
                    sw == IF pivotRow # rank THEN SwapRows(matrix, rank, pivotRow)
                          ELSE matrix
                    reduced ==
                      MakeVector(
                        [i \in Rows |->
                           IF i >= rank + 1 /\ sw[i][j] # 0
                           THEN LET factor == Divide(sw[i][j], sw[rank][j])
                                IN  MakeVector(
                                      [k \in Rows |->
                                         IF k >= j
                                         THEN Subtract(sw[i][k],
                                                Multiply(factor, sw[rank][k]))
                                         ELSE sw[i][k]],
                                      generationSize)
                           ELSE sw[i]],
                        generationSize)
                IN  RankColumns(reduced, j + 1, rank + 1)

CalculateRank(d) == RankColumns(d.m_coefficients, 0, 0)

\* mutant: decodable one row early
CanDecodeOneShort(d) == CalculateRank(d) >= generationSize - 1

CanDecode(d) == CalculateRank(d) = generationSize

\* mutant: the pivot row is not normalized
ScaleRowSkipped(row, factor) == row

\* row * factor, entry by entry
ScaleRow(row, factor) ==
  MakeVector([k \in DOMAIN row |-> Multiply(row[k], factor)], Size(row))

\* target - factor * row, entry by entry
EliminateRow(target, row, factor) ==
  MakeVector([k \in DOMAIN row |-> Subtract(target[k], Multiply(factor, row[k]))],
             Size(row))

RECURSIVE GaussJordan(_, _, _)
\* the pivot loop of DecodeGeneration from row i on; ok is FALSE when the loop
\* returned early on a singular matrix
GaussJordan(coeffMatrix, payloadMatrix, i) ==
  IF i >= generationSize
  THEN [ok |-> TRUE, coeffMatrix |-> coeffMatrix, payloadMatrix |-> payloadMatrix]
  ELSE LET below == {j \in Rows : j >= i + 1 /\ coeffMatrix[j][i] # 0}
           pivotRow == IF below = {} THEN i ELSE Min(below)
       IN  IF coeffMatrix[pivotRow][i] = 0
           THEN [ok |-> FALSE, coeffMatrix |-> coeffMatrix,
                 payloadMatrix |-> payloadMatrix]
           ELSE LET cs == IF pivotRow # i THEN SwapRows(coeffMatrix, i, pivotRow)
                          ELSE coeffMatrix
                    ps == IF pivotRow # i THEN SwapRows(payloadMatrix, i, pivotRow)
                          ELSE payloadMatrix
                    pivotInv == Inverse(cs[i][i])
                    crow == ScaleRow(cs[i], pivotInv)
                    prow == ScaleRow(ps[i], pivotInv)
                    cn == MakeVector(
                            [j \in Rows |->
                               IF j = i THEN crow
                               ELSE IF cs[j][i] # 0
                                    THEN EliminateRow(cs[j], crow, cs[j][i])
                                    ELSE cs[j]],
                            generationSize)
                    pn == MakeVector(
                            [j \in Rows |->
                               IF j = i THEN prow
                               ELSE IF cs[j][i] # 0
                                    THEN EliminateRow(ps[j], prow, cs[j][i])
                                    ELSE ps[j]],
                            generationSize)
                IN  GaussJordan(cn, pn, i + 1)

\* mutant: the elimination runs on the stored matrices themselves
DecodeGenerationInPlace(d) ==
  IF d.m_decoded THEN d
  ELSE IF ~CanDecode(d) THEN d
  ELSE LET g == GaussJordan(d.m_coefficients, d.m_codedPayloads, 0)
       IN  IF ~g.ok THEN d
           ELSE [d EXCEPT !.m_coefficients = g.coeffMatrix,
                          !.m_codedPayloads = g.payloadMatrix,
                          !.m_decodedPackets = g.payloadMatrix,
                          !.m_decoded = TRUE]

\* the decoder after DecodeGeneration
DecodeGeneration(d) ==
  IF d.m_decoded THEN d
  ELSE IF ~CanDecode(d) THEN d
  ELSE LET g == GaussJordan(d.m_coefficients, d.m_codedPayloads, 0)
       IN  IF ~g.ok THEN d
           ELSE [d EXCEPT !.m_decodedPackets = g.payloadMatrix,
                          !.m_decoded = TRUE]

\* mutant: no generation test
SameGenerationAlways(p, d) == TRUE

\* the packet belongs to the decoder's current generation
SameGeneration(p, d) == p.generationId = d.m_currentGeneration

\* mutant: a row counts as free when only its first coefficient is zero
RowEmptyFirstColumn(d, i) == d.m_coefficients[i][0] = 0

\* the row-is-free test of ProcessCodedPacket: every coefficient is zero
RowEmpty(d, i) == \A j \in Rows : d.m_coefficients[i][j] = 0

\* ProcessCodedPacket on the decoder d: the value returned and the decoder
\* the call leaves behind
ProcessCodedPacketOn(d, p) ==
  IF p = nullptr
  THEN [val |-> FALSE, decoder |-> d]
  ELSE IF d.m_decoded
  THEN [val |-> FALSE, decoder |-> d]
  ELSE IF ~HeaderAccepted(p)
  THEN [val |-> FALSE, decoder |-> d]
  ELSE IF ~SameGeneration(p, d)
  THEN [val |-> FALSE, decoder |-> d]
  ELSE IF Size(p.coefficients) = 0
  THEN [val |-> FALSE, decoder |-> d]
  ELSE LET paddedCoeffs ==
             MakeVector([i \in Rows |->
                           IF i < Size(p.coefficients) THEN p.coefficients[i]
                           ELSE 0],
                        generationSize)
           payload ==
             MakeVector([i \in 0 .. (d.m_packetSize - 1) |->
                           IF i < Size(p.payload) THEN p.payload[i] ELSE 0],
                        d.m_packetSize)
           empty == {i \in Rows : RowEmpty(d, i)}
       IN  IF empty = {}
           THEN [val |-> FALSE, decoder |-> d]
           ELSE LET row == Min(empty)
                    stored ==
                      [d EXCEPT !.m_coefficients[row] = paddedCoeffs,
                                !.m_codedPayloads[row] = payload]
                IN  [val |-> TRUE,
                     decoder |-> IF CanDecode(stored)
                                 THEN DecodeGeneration(stored) ELSE stored]

ProcessCodedPacket(p) ==
  \E result \in {ProcessCodedPacketOn(dec, p)} :
    /\ dec' = result.decoder
    /\ ret' = [op |-> "ProcessCodedPacket", val |-> result.val]
    /\ UNCHANGED <<enc, app>>

GetRank ==
  /\ ret' = [op |-> "GetRank", val |-> CalculateRank(dec)]
  /\ UNCHANGED <<enc, dec, app>>

\* mutant: the cached packets are moved out to the caller
GetDecodedPacketsMoved ==
  /\ dec' = [(IF ~dec.m_decoded /\ CanDecode(dec) THEN DecodeGeneration(dec)
              ELSE dec) EXCEPT !.m_decodedPackets = << >>]
  /\ ret' = [op |-> "GetDecodedPackets",
             val |-> (IF ~dec.m_decoded /\ CanDecode(dec)
                      THEN DecodeGeneration(dec) ELSE dec).m_decodedPackets]
  /\ UNCHANGED <<enc, app>>

\* mutant: the cache is returned without the lazy decode
GetDecodedPacketsCacheOnly ==
  /\ ret' = [op |-> "GetDecodedPackets", val |-> dec.m_decodedPackets]
  /\ UNCHANGED <<enc, dec, app>>

GetDecodedPackets ==
  /\ dec' = IF ~dec.m_decoded /\ CanDecode(dec) THEN DecodeGeneration(dec)
            ELSE dec
  /\ ret' = [op |-> "GetDecodedPackets", val |-> dec'.m_decodedPackets]
  /\ UNCHANGED <<enc, app>>

\* mutant: the generation ID advances and the matrices are zeroed, the
\* decoded flag and the cache are kept
DecoderNextGenerationKeepsCache ==
  /\ dec.m_currentGeneration < MaxGen
  /\ dec' = [dec EXCEPT !.m_coefficients = ZeroMatrix(generationSize),
                        !.m_codedPayloads = ZeroMatrix(dec.m_packetSize),
                        !.m_currentGeneration = dec.m_currentGeneration + 1]
  /\ ret' = [op |-> "NextGeneration", val |-> TRUE]
  /\ UNCHANGED <<enc, app>>

\* std::fill(row.begin(), row.end(), 0) on every row of the matrix
FillZero(matrix) ==
  MakeVector([i \in DOMAIN matrix |->
                MakeVector([j \in DOMAIN matrix[i] |-> 0], Size(matrix[i]))],
             Size(matrix))

\* NetworkCodingDecoder::NextGeneration on the decoder d
NextGenerationOf(d) ==
  [d EXCEPT !.m_coefficients = FillZero(d.m_coefficients),
            !.m_codedPayloads = FillZero(d.m_codedPayloads),
            !.m_decoded = FALSE,
            !.m_decodedPackets = << >>,
            !.m_currentGeneration = d.m_currentGeneration + 1,
            !.m_receivedSequences = {}]

DecoderNextGeneration ==
  /\ dec.m_currentGeneration < MaxGen
  /\ dec' = NextGenerationOf(dec)
  /\ ret' = [op |-> "NextGeneration", val |-> TRUE]
  /\ UNCHANGED <<enc, app>>

\* std::vector::resize(n, 0): truncated, or extended with zeros
Resize(vec, n) ==
  MakeVector([i \in 0 .. (n - 1) |-> IF i < Size(vec) THEN vec[i] ELSE 0], n)

\* mutant: the payload rows are resized, the decoded state is kept
SetPacketSizeKeepsDecoded(newSize) ==
  /\ dec' = IF newSize # dec.m_packetSize
            THEN [dec EXCEPT !.m_packetSize = newSize,
                             !.m_codedPayloads =
                               MakeVector([i \in Rows |->
                                             Resize(dec.m_codedPayloads[i], newSize)],
                                          generationSize)]
            ELSE dec
  /\ ret' = [op |-> "SetPacketSize", val |-> TRUE]
  /\ UNCHANGED <<enc, app>>

SetPacketSize(newSize) ==
  /\ dec' = IF newSize # dec.m_packetSize
            THEN [dec EXCEPT !.m_packetSize = newSize,
                             !.m_codedPayloads =
                               MakeVector([i \in DOMAIN dec.m_codedPayloads |->
                                             Resize(dec.m_codedPayloads[i], newSize)],
                                          Size(dec.m_codedPayloads)),
                             !.m_decoded = FALSE,
                             !.m_decodedPackets = << >>]
            ELSE dec
  /\ ret' = [op |-> "SetPacketSize", val |-> TRUE]
  /\ UNCHANGED <<enc, app>>

\* std::vector::resize(n, row) on a matrix: the first rows kept as they
\* are, copies of row appended when it grows
ResizeRows(matrix, n, row) ==
  MakeVector([i \in 0 .. (n - 1) |-> IF i < Size(matrix) THEN matrix[i] ELSE row],
             n)

SetGenerationSize(newSize) ==
  /\ dec' = IF newSize # dec.m_generationSize
            THEN [dec EXCEPT !.m_generationSize = newSize,
                             !.m_coefficients =
                               ResizeRows(dec.m_coefficients, newSize,
                                          MakeVector([j \in 0 .. (newSize - 1) |-> 0],
                                                     newSize)),
                             !.m_codedPayloads =
                               ResizeRows(dec.m_codedPayloads, newSize,
                                          MakeVector([j \in 0 .. (dec.m_packetSize - 1)
                                                        |-> 0], dec.m_packetSize)),
                             !.m_decoded = FALSE,
                             !.m_decodedPackets = << >>,
                             !.m_receivedSequences = {}]
            ELSE dec
  /\ ret' = [op |-> "SetGenerationSize", val |-> TRUE]
  /\ UNCHANGED <<enc, app>>

\* mutant: the sequence numbers are not offset by the generation
GetMissingPacketsFromZero ==
  /\ ret' = [op |-> "GetMissingPackets",
             val |-> (0 .. (dec.m_generationSize - 1)) \ dec.m_receivedSequences]
  /\ UNCHANGED <<enc, dec, app>>

\* the sequence numbers of the current generation not in m_receivedSequences
GetMissingPackets ==
  /\ ret' = [op |-> "GetMissingPackets",
             val |-> {dec.m_currentGeneration * dec.m_generationSize + i :
                        i \in 0 .. (dec.m_generationSize - 1)}
                       \ dec.m_receivedSequences]
  /\ UNCHANGED <<enc, dec, app>>

(***************************************************************************)
(* Specifications.                                                         *)
(*   SpecEnc: an encoder under any sequence of calls.                      *)
(*   SpecDec: a decoder fed packets with arbitrary coefficient vectors.    *)
(*   SpecRT:  an encoder filled once, whose packets reach a decoder.       *)
(*   SpecCfg: a decoder fed packets and reconfigured by SetPacketSize.     *)
(***************************************************************************)
\* NetworkCodingUdpApplication::NetworkCodingUdpApplication with the
\* NumPackets attribute set to n: the application is not started, no event
\* is pending and no ACK has been sent
NewApplication(n) ==
  [m_numPackets |-> n,
   m_running |-> FALSE,
   m_generationsDecoded |-> 0,
   m_currentGeneration |-> 0,
   m_generationPacketCount |-> 0,
   m_currentGenerationSent |-> 0,
   m_packetsInCurrentGeneration |-> 0,
   m_waitingForGenerationAck |-> FALSE,
   m_retransmissionCount |-> 0,
   m_sendEvent |-> 0,
   m_retransmissionTimer |-> FALSE,
   staleTimers |-> 0,
   acksSent |-> [g \in 0 .. MaxGen |-> 0],
   retransmissionBursts |-> 0]

Init ==
  /\ EncoderInit
  /\ DecoderInit
  /\ ret = [op |-> "Create", val |-> TRUE]
  /\ app = NewApplication(0)

\* the coefficient vectors a generation-complete encoder may draw
Draws == [Rows -> RandCoefs]

NextEnc ==
  \/ \E data \in Payloads, seqNum \in SeqNums : AddPacket(data, seqNum)
  \/ \E draws \in Draws : GenerateCodedPacket(draws)
  \/ \E seqNum \in SeqNums : GenerateUncodedPacket(seqNum)
  \/ EncoderNextGeneration

SpecEnc == Init /\ [][NextEnc]_vars

\* coefficient values of the packets fed to the decoder
CoefVals == {0, 1, 2}

\* the packets of the generation the coded packets are combinations of
SourcePackets == MakeVector([s \in Rows |-> SourcePacket(s)], generationSize)

\* well-formed coded packets of any generation, any coefficient vector
PacketPool ==
  {[generationId |-> g,
    generationSize |-> generationSize,
    coefficients |-> MakeVector(c, generationSize),
    payload |-> CodedPayload(c, SourcePackets)] :
     g \in 0 .. MaxGen, c \in [Rows -> CoefVals]}

NextDec ==
  \/ \E p \in PacketPool : ProcessCodedPacket(p)
  \/ GetRank
  \/ GetDecodedPackets
  \/ DecoderNextGeneration

SpecDec == Init /\ [][NextDec]_vars

IsPacket(r) == r.op \in {"GenerateCodedPacket", "GenerateUncodedPacket"}

NextRT ==
  \/ \E seqNum \in SeqNums : AddPacket(SourcePacket(seqNum), seqNum)
  \/ \E draws \in Draws : IsGenerationComplete /\ GenerateCodedPacket(draws)
  \/ \E seqNum \in SeqNums :
       IsGenerationComplete /\ GenerateUncodedPacket(seqNum)
  \/ IsPacket(ret) /\ ProcessCodedPacket(ret.val)
  \/ GetRank
  \/ GetDecodedPackets

SpecRT == Init /\ [][NextRT]_vars

\* packet sizes a caller passes to SetPacketSize
PacketSizes == {packetSize, packetSize + 1}

\* the packets of the pool whose coefficients are all nonzero
CfgPool == {p \in PacketPool : \A k \in Rows : p.coefficients[k] # 0}

NextCfg ==
  \/ \E p \in CfgPool : ProcessCodedPacket(p)
  \/ GetRank
  \/ GetDecodedPackets
  \/ DecoderNextGeneration
  \/ \E newSize \in PacketSizes : SetPacketSize(newSize)

SpecCfg == Init /\ [][NextCfg]_vars

(***************************************************************************)
(* Linear algebra over GF(2^8) by definition, without the log/antilog      *)
(* tables and without elimination.                                         *)
(***************************************************************************)
RECURSIVE PolyMul(_, _)
\* the product of the polynomials a and b modulo x^8 + x^4 + x^3 + x^2 + 1
PolyMul(a, b) ==
  IF b = 0 THEN 0
  ELSE LET twice == IF 2 * a >= 256 THEN BitXor(2 * a, 285) ELSE 2 * a
           rest == PolyMul(twice, b \div 2)
       IN  IF b % 2 = 1 THEN BitXor(a, rest) ELSE rest

RECURSIVE Determinant(_, _, _)
\* the determinant of the square submatrix of m on the rows rs (a sequence)
\* and the columns cs (a set); the field has characteristic 2, so no signs
Determinant(m, rs, cs) ==
  IF rs = << >> THEN 1
  ELSE LET term[c \in cs] ==
             PolyMul(m[Head(rs)][c], Determinant(m, Tail(rs), cs \ {c}))
           sum[S \in SUBSET cs] ==
             IF S = {} THEN 0
             ELSE LET c == Min(S) IN BitXor(term[c], sum[S \ {c}])
       IN  sum[cs]

\* the dimension of the space spanned by the rows of m (any set of row
\* indices): the size of the largest square submatrix with nonzero determinant
RowSpaceDim(m, cols) ==
  LET sizes == {k \in 0 .. Cardinality(cols) :
                  \E R \in SUBSET (DOMAIN m), C \in SUBSET cols :
                     /\ Cardinality(R) = k
                     /\ Cardinality(C) = k
                     /\ Determinant(m, SortedKeys(R), C) # 0}
  IN  CHOOSE k \in sizes : \A o \in sizes : o <= k

\* the payloads buffered in the encoder
Originals ==
  {enc.m_generationPackets[s] : s \in DOMAIN enc.m_generationPackets}

\* the payloads of a vector of packets
PayloadSet(packets) == {packets[i] : i \in DOMAIN packets}

(***************************************************************************)
(* Claims.                                                                 *)
(***************************************************************************)

\* C1: round trip. Once a generation-complete encoder has passed N coded
\* packets with linearly independent coefficient vectors to a fresh decoder
\* (the stored matrix is then non-singular), CanDecode() is true, GetRank()
\* is N, and the decoded packets are N packets whose payloads, as a set, are
\* the original payloads.
C1_RoundTrip ==
  (IsGenerationComplete
     /\ RowSpaceDim(dec.m_coefficients, Rows) = generationSize) =>
    /\ CanDecode(dec)
    /\ CalculateRank(dec) = generationSize
    /\ dec.m_decoded
    /\ Size(dec.m_decodedPackets) = generationSize
    /\ PayloadSet(dec.m_decodedPackets) = Originals
    /\ (ret.op = "GetDecodedPackets" => ret.val = dec.m_decodedPackets)

\* C1 witness: a decoded generation received through packets with a
\* coefficient other than 0 and 1, read back with GetDecodedPackets
C1_Witness ==
  /\ IsGenerationComplete
  /\ RowSpaceDim(dec.m_coefficients, Rows) = generationSize
  /\ \E i \in Rows, j \in Rows : dec.m_coefficients[i][j] = 2
  /\ ret.op = "GetDecodedPackets"
  /\ Size(ret.val) = generationSize

\* C2: decoded order. With the encoder filled under sequence numbers
\* 0 .. N-1 and the generation decoded, the i-th decoded packet is the
\* original packet of sequence number i, whatever was received.
C2_DecodedOrder ==
  (DOMAIN enc.m_generationPackets = Rows /\ dec.m_decoded) =>
    /\ \A i \in Rows : dec.m_decodedPackets[i] = enc.m_generationPackets[i]
    /\ (ret.op = "GetDecodedPackets" =>
          \A i \in Rows : ret.val[i] = enc.m_generationPackets[i])

\* C2 witness: decoded from packets received out of order (the first stored
\* row does not involve packet 0 at all) and with coefficients other than 1
C2_Witness ==
  /\ DOMAIN enc.m_generationPackets = Rows
  /\ dec.m_decoded
  /\ dec.m_coefficients[0][0] = 0
  /\ \E i \in Rows, j \in Rows : dec.m_coefficients[i][j] = 2
  /\ ret.op = "GetDecodedPackets"

\* the stored coefficient rows with the vector v added as one more row
WithRow(m, v) == (generationSize :> v) @@ m

\* C3: any sufficiently independent subset decodes. Whenever a well-formed
\* packet of the current generation is passed to ProcessCodedPacket and the
\* vectors passed so far (the stored rows and this one) contain N linearly
\* independent vectors, the decoder can decode afterwards and holds the
\* originals.
C3_AnyIndependentSubsetDecodes ==
  [][(/\ IsPacket(ret)
      /\ ret.val # nullptr
      /\ ProcessCodedPacket(ret.val)
      /\ RowSpaceDim(WithRow(dec.m_coefficients, ret.val.coefficients), Rows)
           = generationSize)
     => (/\ CanDecode(dec')
         /\ Size(dec'.m_decodedPackets) = generationSize
         /\ PayloadSet(dec'.m_decodedPackets) = Originals)]_vars

\* C4: idempotence after decode. Once the generation is decoded, every
\* further ProcessCodedPacket call returns false and leaves the matrices, the
\* rank, the decoded flag and the cached packets unchanged, and every
\* GetDecodedPackets call returns the same N packets. (ret'.op names the
\* operation a step has called.)
C4_IdempotentAfterDecode ==
  [][dec.m_decoded =>
       /\ ret'.op = "ProcessCodedPacket" =>
            (/\ ret'.val = FALSE
             /\ dec' = dec)
       /\ (ret'.op = "GetDecodedPackets" /\ GetDecodedPackets) =>
            (/\ dec' = dec
             /\ ret'.val = dec.m_decodedPackets
             /\ Size(ret'.val) = generationSize)]_vars

\* C4 witness: a decoded generation on which a later packet was refused
C4_Witness ==
  /\ dec.m_decoded
  /\ Size(dec.m_decodedPackets) = generationSize
  /\ ret = [op |-> "ProcessCodedPacket", val |-> FALSE]

\* C5: a packet of another generation (older or newer) is refused and
\* changes nothing in the decoder. Stated by contraposition: a
\* ProcessCodedPacket call that returns true or changes the decoder is not a
\* call with a packet of another generation.
C5_OtherGenerationRefused ==
  [][(ret'.op = "ProcessCodedPacket" /\ ~(ret'.val = FALSE /\ dec' = dec)) =>
       \A p \in PacketPool :
         p.generationId # dec.m_currentGeneration => ~ProcessCodedPacket(p)]_vars

\* C5 witness: a refusal on a decoder that is not decoded and has both a
\* stored row and an empty row, which only the generation test can cause
C5_Witness ==
  /\ ~dec.m_decoded
  /\ ~RowEmpty(dec, 0)
  /\ RowEmpty(dec, generationSize - 1)
  /\ dec.m_currentGeneration = 1
  /\ ret = [op |-> "ProcessCodedPacket", val |-> FALSE]

\* C6: 0 <= GetRank() <= generationSize, and CanDecode() exactly when
\* GetRank() = generationSize.
C6_RankRange ==
  /\ CalculateRank(dec) \in 0 .. generationSize
  /\ CanDecode(dec) <=> (CalculateRank(dec) = generationSize)

\* C6 witness: all rows stored and the rank still below generationSize
C6_Witness ==
  /\ \A i \in Rows : ~RowEmpty(dec, i)
  /\ CalculateRank(dec) < generationSize
  /\ ~CanDecode(dec)

\* C7: GetRank() is the dimension of the row space of the stored
\* coefficient matrix, and computing it leaves the decoder as it was.
C7_RankIsDimension ==
  [][(ret'.op = "GetRank" /\ GetRank) =>
       /\ ret'.val = RowSpaceDim(dec.m_coefficients, Rows)
       /\ dec' = dec]_vars

\* C7 witness: GetRank returned less than the number of stored rows
C7_Witness ==
  /\ ret.op = "GetRank"
  /\ \A i \in Rows : ~RowEmpty(dec, i)
  /\ ret.val = generationSize - 1
  /\ \E i \in Rows, j \in Rows : dec.m_coefficients[i][j] = 2

\* C8: encoder capacity. AddPacket on a full buffer returns false and
\* leaves the buffer unchanged; GetPacketCount() <= generationSize always,
\* and IsGenerationComplete() exactly when GetPacketCount() = generationSize.
C8_Capacity ==
  /\ [](/\ GetPacketCount <= generationSize
        /\ IsGenerationComplete <=> (GetPacketCount = generationSize))
  /\ [][(ret'.op = "AddPacket" /\ GetPacketCount >= generationSize) =>
          \A data \in Payloads, seqNum \in SeqNums :
            AddPacket(data, seqNum) => (ret'.val = FALSE /\ enc' = enc)]_vars

\* C8 witness: a full buffer on which AddPacket was refused
C8_Witness ==
  /\ GetPacketCount = generationSize
  /\ IsGenerationComplete
  /\ ret = [op |-> "AddPacket", val |-> FALSE]

\* C9: AddPacket with a sequence number already buffered returns false and
\* keeps the payload first stored and the packet count.
C9_DuplicateRefused ==
  [][\A data \in Payloads, seqNum \in SeqNums :
       (seqNum \in GetSequenceNumbers /\ AddPacket(data, seqNum))
         => (ret'.val = FALSE /\ enc' = enc)]_vars

\* C9 witness: a refusal on a buffer that is not full
C9_Witness ==
  /\ GetPacketCount >= 1
  /\ GetPacketCount < generationSize
  /\ ret = [op |-> "AddPacket", val |-> FALSE]

\* C10: GenerateCodedPacket returns null exactly when nothing is buffered
\* and never changes the encoder.
C10_GenerateIsPure ==
  [][ret'.op = "GenerateCodedPacket" =>
       \A draws \in Draws :
         GenerateCodedPacket(draws)
           => (/\ enc' = enc
               /\ (ret'.val = nullptr) <=> (GetPacketCount = 0))]_vars

\* C10 witness: a coded packet returned from a partly filled generation
C10_Witness ==
  /\ ret.op = "GenerateCodedPacket"
  /\ ret.val # nullptr
  /\ GetPacketCount >= 1
  /\ GetPacketCount < generationSize

\* the buffered sequence number with k smaller ones buffered besides it
KthBuffered(k) ==
  CHOOSE s \in GetSequenceNumbers :
    Cardinality({t \in GetSequenceNumbers : t < s}) = k

RECURSIVE XorOver(_, _)
\* f[0] XOR ... XOR f[n-1]
XorOver(f, n) == IF n = 0 THEN 0 ELSE BitXor(XorOver(f, n - 1), f[n - 1])

\* C11: every packet GenerateCodedPacket returns carries the encoder's
\* generation ID, generationSize, and generationSize coefficients: the k-th
\* in 1..255 for the k-th buffered packet in ascending sequence-number order,
\* zero for the remaining positions; payload byte i is the XOR over k of
\* Multiply(coefficient[k], byte i of the k-th buffered packet).
C11_CodedPacketContents ==
  [][(ret'.op = "GenerateCodedPacket" /\ ret'.val # nullptr) =>
       /\ ret'.val.generationId = enc.m_currentGeneration
       /\ ret'.val.generationSize = generationSize
       /\ DOMAIN ret'.val.coefficients = Rows
       /\ \A k \in Rows :
            IF k < GetPacketCount
            THEN ret'.val.coefficients[k] \in 1 .. 255
            ELSE ret'.val.coefficients[k] = 0
       /\ DOMAIN ret'.val.payload = 0 .. (packetSize - 1)
       /\ \A i \in 0 .. (packetSize - 1) :
            ret'.val.payload[i] =
              XorOver([k \in 0 .. (GetPacketCount - 1) |->
                         Multiply(ret'.val.coefficients[k],
                                  enc.m_generationPackets[KthBuffered(k)][i])],
                      GetPacketCount)]_vars

\* C11 witness: a coded packet over a complete generation whose payloads
\* differ, with a coefficient other than 1
C11_Witness ==
  /\ ret.op = "GenerateCodedPacket"
  /\ ret.val # nullptr
  /\ IsGenerationComplete
  /\ enc.m_generationPackets[KthBuffered(0)] # enc.m_generationPackets[KthBuffered(1)]
  /\ ret.val.coefficients[0] = 2
  /\ ret.val.coefficients[1] = 1

\* C12: GenerateUncodedPacket(seqNum) returns null when seqNum is not
\* buffered; otherwise the stored payload of seqNum with the current
\* generation ID and a coefficient vector of generationSize entries, 1 at the
\* packet's position in the buffer and 0 elsewhere; the encoder is unchanged.
C12_UncodedPacketContents ==
  [][\A seqNum \in SeqNums :
       (ret'.op = "GenerateUncodedPacket" /\ GenerateUncodedPacket(seqNum)) =>
         /\ enc' = enc
         /\ IF seqNum \notin GetSequenceNumbers
            THEN ret'.val = nullptr
            ELSE /\ ret'.val # nullptr
                 /\ ret'.val.payload = enc.m_generationPackets[seqNum]
                 /\ DOMAIN ret'.val.payload = 0 .. (packetSize - 1)
                 /\ ret'.val.generationId = enc.m_currentGeneration
                 /\ ret'.val.generationSize = generationSize
                 /\ DOMAIN ret'.val.coefficients = Rows
                 /\ \A k \in Rows :
                      ret'.val.coefficients[k] =
                        IF k < GetPacketCount /\ KthBuffered(k) = seqNum
                        THEN 1 ELSE 0]_vars

\* C12 witness: an uncoded packet whose position in the buffer is not its
\* sequence number
C12_Witness ==
  /\ ret.op = "GenerateUncodedPacket"
  /\ ret.val # nullptr
  /\ 0 \notin GetSequenceNumbers
  /\ ret.val.coefficients[0] = 1

\* C13: encoder NextGeneration raises the generation ID by one and empties
\* the buffer: right afterwards GetPacketCount() = 0, IsGenerationComplete()
\* is false, GenerateCodedPacket returns null, any sequence number (one of the
\* previous generation included) can be added, packets generated later carry
\* the new generation ID; no other operation changes the generation ID.
C13_EncoderNextGeneration ==
  /\ [](ret.op = "NextGeneration" =>
          (GetPacketCount = 0 /\ ~IsGenerationComplete))
  /\ [][/\ ret'.op = "NextGeneration" =>
             enc'.m_currentGeneration = enc.m_currentGeneration + 1
        /\ ret'.op # "NextGeneration" =>
             enc'.m_currentGeneration = enc.m_currentGeneration
        /\ (ret.op = "NextGeneration" /\ ret'.op = "GenerateCodedPacket") =>
             ret'.val = nullptr
        /\ (ret.op = "NextGeneration" /\ ret'.op = "AddPacket") =>
             (ret'.val = TRUE /\ GetSequenceNumbers = {})
        /\ (ret'.op \in {"GenerateCodedPacket", "GenerateUncodedPacket"}
              /\ ret'.val # nullptr) =>
             ret'.val.generationId = enc'.m_currentGeneration]_vars

\* C13 witness: a coded packet of generation 1
C13_Witness ==
  /\ enc.m_currentGeneration = 1
  /\ ret.op = "GenerateCodedPacket"
  /\ ret.val # nullptr
  /\ ret.val.generationId = 1

\* C14: decoder NextGeneration, called in any state, raises the generation
\* ID by one, zeroes both matrices, clears the decoded flag and the cache:
\* afterwards GetRank() = 0, CanDecode() is false, GetDecodedPackets() is
\* empty, packets of the previous generation are refused and packets of the
\* new generation are accepted.
C14_DecoderNextGeneration ==
  /\ [](ret.op = "NextGeneration" =>
          /\ \A i \in Rows : \A j \in Rows : dec.m_coefficients[i][j] = 0
          /\ \A i \in Rows : \A j \in DOMAIN dec.m_codedPayloads[i] :
               dec.m_codedPayloads[i][j] = 0
          /\ ~dec.m_decoded
          /\ dec.m_decodedPackets = << >>
          /\ CalculateRank(dec) = 0
          /\ ~CanDecode(dec))
  /\ [][/\ ret'.op = "NextGeneration" =>
             dec'.m_currentGeneration = dec.m_currentGeneration + 1
        /\ (ret.op = "NextGeneration" /\ ret'.op = "GetDecodedPackets") =>
             (ret'.val = << >> /\ dec' = dec)
        /\ (ret.op = "NextGeneration" /\ ret'.op = "ProcessCodedPacket") =>
             \A p \in PacketPool :
               ProcessCodedPacket(p) =>
                 (ret'.val = (p.generationId = dec.m_currentGeneration))]_vars

\* C14 witness: a packet of generation 1 stored by a decoder that moved to
\* generation 1
C14_Witness ==
  /\ dec.m_currentGeneration = 1
  /\ ret = [op |-> "ProcessCodedPacket", val |-> TRUE]
  /\ ~RowEmpty(dec, 0)
  /\ RowEmpty(dec, 1)

(***************************************************************************)
(* SpecGF: the GaloisField operations applied to every pair of bytes.      *)
(***************************************************************************)
\* the operands a caller passes to the field operations: uint8_t values
InitGF ==
  /\ EncoderInit
  /\ DecoderInit
  /\ ret \in {[op |-> "Operands", a |-> a, b |-> b, val |-> 0] :
                a \in Byte, b \in Byte}
  /\ app = NewApplication(0)

CallAdd ==
  /\ ret.op = "Operands"
  /\ ret' = [ret EXCEPT !.op = "Add", !.val = Add(ret.a, ret.b)]
  /\ UNCHANGED <<enc, dec, app>>

CallSubtract ==
  /\ ret.op = "Operands"
  /\ ret' = [ret EXCEPT !.op = "Subtract", !.val = Subtract(ret.a, ret.b)]
  /\ UNCHANGED <<enc, dec, app>>

CallMultiply ==
  /\ ret.op = "Operands"
  /\ ret' = [ret EXCEPT !.op = "Multiply", !.val = Multiply(ret.a, ret.b)]
  /\ UNCHANGED <<enc, dec, app>>

CallDivide ==
  /\ ret.op = "Operands"
  /\ ret' = [ret EXCEPT !.op = "Divide", !.val = Divide(ret.a, ret.b)]
  /\ UNCHANGED <<enc, dec, app>>

CallInverse ==
  /\ ret.op = "Operands"
  /\ ret' = [ret EXCEPT !.op = "Inverse", !.val = Inverse(ret.a)]
  /\ UNCHANGED <<enc, dec, app>>

NextGF == CallAdd \/ CallSubtract \/ CallMultiply \/ CallDivide \/ CallInverse

SpecGF == InitGF /\ [][NextGF]_vars

\* C17: for every a in 1..255, Multiply(a, Inverse(a)) = 1 and
\* Inverse(a) = Divide(1, a).
C17_InverseIsReciprocal ==
  (ret.op = "Inverse" /\ ret.a # 0) =>
    /\ Multiply(ret.a, ret.val) = 1
    /\ ret.val = Divide(1, ret.a)

\* C17 witness: the inverse of 0x53, which is not 0x53 itself
C17_Witness ==
  /\ ret.op = "Inverse"
  /\ ret.a = 83
  /\ ret.val \notin {0, 1, 83}

\* C18: division inverts multiplication: for every a in 0..255 and b in
\* 1..255, Divide(Multiply(a,b), b) = a and Multiply(Divide(a,b), b) = a.
C18_DivideInvertsMultiply ==
  /\ (ret.op = "Multiply" /\ ret.b # 0) => Divide(ret.val, ret.b) = ret.a
  /\ (ret.op = "Divide" /\ ret.b # 0) => Multiply(ret.val, ret.b) = ret.a

\* C18 witness: a quotient whose logarithm difference is negative
C18_Witness ==
  /\ ret.op = "Divide"
  /\ ret.a # 0
  /\ ret.b # 0
  /\ m_logTable[ret.a] < m_logTable[ret.b]
  /\ ret.val = 83

\* C19: Multiply is commutative and associative on 0..255, with
\* Multiply(a,1) = a and Multiply(a,0) = 0.
C19_MultiplyCommutesAssociates ==
  ret.op = "Multiply" =>
    /\ ret.val = Multiply(ret.b, ret.a)
    /\ \A c \in Byte :
         Multiply(ret.a, Multiply(ret.b, c)) = Multiply(ret.val, c)
    /\ ret.b = 1 => ret.val = ret.a
    /\ ret.b = 0 => ret.val = 0

\* C19 witness: a product whose logarithm sum wraps around
C19_Witness ==
  /\ ret.op = "Multiply"
  /\ ret.a # 0
  /\ ret.b # 0
  /\ m_logTable[ret.a] + m_logTable[ret.b] >= FIELD_SIZE - 1
  /\ ret.val = 202

\* C20: Multiply distributes over Add: for all a, b, c in 0..255,
\* Multiply(a, Add(b,c)) = Add(Multiply(a,b), Multiply(a,c)).
C20_MultiplyDistributes ==
  ret.op = "Add" =>
    \A c \in Byte :
      Multiply(c, ret.val) = Add(Multiply(c, ret.a), Multiply(c, ret.b))

\* C20 witness: a sum of two nonzero bytes that differ
C20_Witness ==
  /\ ret.op = "Add"
  /\ ret.a = 83
  /\ ret.b = 202
  /\ ret.val = 153

\* C15: GetDecodedPackets() returns an empty vector where GetRank() <
\* generationSize and changes no decoder state there; where GetRank() =
\* generationSize it returns exactly generationSize packets, running the
\* decode first if it has not yet run.
C15_GetDecodedPackets ==
  [][(ret'.op = "GetDecodedPackets" /\ GetDecodedPackets) =>
       IF CalculateRank(dec) < generationSize
       THEN ret'.val = << >> /\ dec' = dec
       ELSE /\ Size(ret'.val) = generationSize
            /\ dec'.m_decoded
            /\ ret'.val = dec'.m_decodedPackets
            /\ dec'.m_decodedPackets = DecodeGeneration(dec).m_decodedPackets
            /\ dec'.m_coefficients = dec.m_coefficients
            /\ dec'.m_codedPayloads = dec.m_codedPayloads]_vars

\* C15 witness: packets returned by a decoder whose packet size was changed
C15_Witness ==
  /\ ret.op = "GetDecodedPackets"
  /\ Size(ret.val) = generationSize
  /\ dec.m_packetSize = packetSize + 1
  /\ dec.m_decoded
  /\ \A i \in Rows : Size(ret.val[i]) = packetSize + 1

\* the state of the per-generation state machine: 0 COLLECTING,
\* 1 DECODABLE (full rank, decode not run), 2 DECODED
Phase(d) == IF d.m_decoded THEN 2 ELSE IF CanDecode(d) THEN 1 ELSE 0

Bit(v, k) == (v \div (2 ^ k)) % 2

\* the bitwise exclusive or of two bytes, bit by bit
XorOfBits(a, b) ==
  LET d(k) == (IF Bit(a, k) # Bit(b, k) THEN 2 ^ k ELSE 0)
  IN  d(0) + d(1) + d(2) + d(3) + d(4) + d(5) + d(6) + d(7)

\* C21: Add and Subtract are both bitwise XOR: for all a, b, c in 0..255,
\* Add(a,b) = Subtract(a,b) = a XOR b, Add is commutative and associative,
\* Add(a,0) = a and Add(a,a) = 0.
C21_AddIsXor ==
  /\ ret.op = "Subtract" =>
       (ret.val = XorOfBits(ret.a, ret.b) /\ ret.val = Add(ret.a, ret.b))
  /\ ret.op = "Add" =>
       (/\ ret.val = XorOfBits(ret.a, ret.b)
        /\ ret.val = Add(ret.b, ret.a)
        /\ \A c \in Byte : Add(ret.a, Add(ret.b, c)) = Add(ret.val, c)
        /\ ret.b = 0 => ret.val = ret.a
        /\ ret.b = ret.a => ret.val = 0)

\* C21 witness: a difference that integer subtraction would get wrong
C21_Witness ==
  /\ ret.op = "Subtract"
  /\ ret.a = 83
  /\ ret.b = 202
  /\ ret.val = 153

\* C22: with the tables InitTables builds, Multiply(0x53, 0xCA) = 0x01,
\* Add(0x53, 0xCA) = 0x99 and Divide(0x01, 0x01) = 0x01.
C22_ConcreteVectors ==
  /\ (ret.op = "Multiply" /\ ret.a = 83 /\ ret.b = 202) => ret.val = 1
  /\ (ret.op = "Add" /\ ret.a = 83 /\ ret.b = 202) => ret.val = 153
  /\ (ret.op = "Divide" /\ ret.a = 1 /\ ret.b = 1) => ret.val = 1

\* C23: Divide(a, 0) and Inverse(0) fail with an outcome a caller can tell
\* apart from the field element 0: the value returned is not a byte.
C23_ZeroDivisionSignalled ==
  /\ (ret.op = "Divide" /\ ret.b = 0) => ret.val \notin Byte
  /\ (ret.op = "Inverse" /\ ret.a = 0) => ret.val \notin Byte

(***************************************************************************)
(* NetworkCodingHeader on the wire (Serialize / Deserialize).  A buffer is  *)
(* a sequence of bytes; a header is m_generationId, m_generationSize and   *)
(* m_coefficients.                                                         *)
(***************************************************************************)
\* mutant: the generation ID written least significant byte first
WriteU32LittleEndian(v) ==
  <<v % 256, (v \div 256) % 256, (v \div 65536) % 256, (v \div 16777216) % 256>>

\* Buffer::Iterator::WriteHtonU32
WriteHtonU32(v) ==
  <<(v \div 16777216) % 256, (v \div 65536) % 256, (v \div 256) % 256, v % 256>>

\* Buffer::Iterator::WriteHtonU16
WriteHtonU16(v) == <<(v \div 256) % 256, v % 256>>

\* Buffer::Iterator::ReadNtohU32 at offset at (0-based)
ReadNtohU32(buf, at) ==
  buf[at + 1] * 16777216 + buf[at + 2] * 65536 + buf[at + 3] * 256 + buf[at + 4]

\* Buffer::Iterator::ReadNtohU16 at offset at (0-based)
ReadNtohU16(buf, at) == buf[at + 1] * 256 + buf[at + 2]

GetSerializedSize(h) == 8 + h.m_generationSize

\* the bytes Serialize writes for the header h
Serialize(h) ==
  WriteHtonU32(h.m_generationId)
    \o WriteHtonU16(h.m_generationSize)
    \o WriteHtonU16(Size(h.m_coefficients) % 65536)
    \o [i \in 1 .. h.m_generationSize |->
          IF i - 1 < Size(h.m_coefficients) THEN h.m_coefficients[i - 1] ELSE 0]

\* Deserialize on a fresh header from the bytes buf: the value returned and
\* the header's members afterwards
Deserialize(buf) ==
  LET generationId == ReadNtohU32(buf, 0)
      genSize == ReadNtohU16(buf, 4)
      numCoeffs == ReadNtohU16(buf, 6)
      available == IF Len(buf) - 8 < genSize THEN Len(buf) - 8 ELSE genSize
      coefficients == MakeVector([i \in 0 .. (available - 1) |-> buf[9 + i]],
                                 available)
  IN  IF numCoeffs # genSize
      THEN [val |-> 0, m_generationId |-> generationId,
            m_generationSize |-> genSize, m_coefficients |-> << >>]
      ELSE IF genSize = 0 \/ genSize > 255
      THEN [val |-> 0, m_generationId |-> generationId,
            m_generationSize |-> genSize, m_coefficients |-> << >>]
      ELSE IF available < genSize
      THEN [val |-> 0, m_generationId |-> generationId,
            m_generationSize |-> genSize, m_coefficients |-> coefficients]
      ELSE [val |-> 8 + genSize, m_generationId |-> generationId,
            m_generationSize |-> genSize, m_coefficients |-> coefficients]

\* values given to SetGenerationId (uint32_t; the checker's integers end at
\* 2^31 - 1, so the top bit stays clear)
GenerationIds == {0, 1, 258, 16909060, 2147483647}

\* values given to SetGenerationSize (uint16_t)
HeaderSizes == {0, 1, generationSize, generationSize + 1, 255, 256}

WireBytes == {0, 1, 255}

LongVector(n) == MakeVector([k \in 0 .. (n - 1) |-> (7 * k + 1) % 256], n)

\* vectors given to SetCoefficients
CoefficientVectors ==
  UNION {[0 .. (n - 1) -> WireBytes] : n \in 0 .. (generationSize + 1)}
    \cup {LongVector(n) : n \in {254, 255, 256}}

Headers ==
  {[m_generationId |-> g, m_generationSize |-> n, m_coefficients |-> c] :
     g \in GenerationIds, n \in HeaderSizes, c \in CoefficientVectors}

InitWire ==
  /\ EncoderInit
  /\ DecoderInit
  /\ ret \in {[op |-> "Header", header |-> h, bytes |-> << >>,
               val |-> [val |-> 0]] : h \in Headers}
  /\ app = NewApplication(0)

\* the sender serializes the header into a buffer of GetSerializedSize bytes
CallSerialize ==
  /\ ret.op = "Header"
  /\ ret' = [ret EXCEPT !.op = "Serialize", !.bytes = Serialize(ret.header)]
  /\ UNCHANGED <<enc, dec, app>>

\* the receiver deserializes the buffer into a fresh header
CallDeserialize ==
  /\ ret.op = "Serialize"
  /\ ret' = [ret EXCEPT !.op = "Deserialize", !.val = Deserialize(ret.bytes)]
  /\ UNCHANGED <<enc, dec, app>>

NextWire == CallSerialize \/ CallDeserialize

SpecWire == InitWire /\ [][NextWire]_vars

\* C24: for a header with generation size n in 1..255 and exactly n
\* coefficients, Serialize writes exactly 8 + n bytes (generation ID as 4
\* bytes big-endian, size and count as 2 bytes big-endian each, then the n
\* coefficients), and Deserialize of those bytes returns 8 + n and yields
\* the same generation ID, generation size and coefficient vector.
C24_WireRoundTrip ==
  LET h == ret.header
      n == h.m_generationSize
      b == ret.bytes
  IN  (ret.op \in {"Serialize", "Deserialize"} /\ n \in 1 .. 255
         /\ Size(h.m_coefficients) = n) =>
        /\ Len(b) = 8 + n
        /\ Len(b) = GetSerializedSize(h)
        /\ b[1] * 16777216 + b[2] * 65536 + b[3] * 256 + b[4] = h.m_generationId
        /\ b[5] * 256 + b[6] = n
        /\ b[7] * 256 + b[8] = n
        /\ \A i \in 0 .. (n - 1) : b[9 + i] = h.m_coefficients[i]
        /\ ret.op = "Deserialize" =>
             /\ ret.val.val = 8 + n
             /\ ret.val.m_generationId = h.m_generationId
             /\ ret.val.m_generationSize = n
             /\ ret.val.m_coefficients = h.m_coefficients

C24_Witness ==
  /\ ret.op = "Deserialize"
  /\ ret.header.m_generationId = 16909060
  /\ ret.header.m_generationSize = 255
  /\ Size(ret.header.m_coefficients) = 255
  /\ SubSeq(ret.bytes, 1, 8) = <<1, 2, 3, 4, 0, 255, 0, 255>>
  /\ ret.val.val = 263
  /\ ret.val.m_coefficients = LongVector(255)

\* C25: a header that carries fewer coefficients than its generation size
\* is written with zero bytes after its coefficients up to the generation
\* size, and the receiver deserializes it successfully, with the
\* coefficient vector zero-padded to the generation size.
C25_ShortHeaderPadded ==
  LET h == ret.header
      n == h.m_generationSize
      padded == MakeVector([i \in 0 .. (n - 1) |->
                              IF i < Size(h.m_coefficients)
                              THEN h.m_coefficients[i] ELSE 0], n)
  IN  (ret.op = "Deserialize" /\ n \in 1 .. 255
         /\ Size(h.m_coefficients) < n) =>
        /\ Len(ret.bytes) = 8 + n
        /\ \A i \in 0 .. (n - 1) : ret.bytes[9 + i] = padded[i]
        /\ ret.val.val # 0
        /\ ret.val.m_generationId = h.m_generationId
        /\ ret.val.m_generationSize = n
        /\ ret.val.m_coefficients = padded

\* C26: every packet stored by a successful AddPacket is exactly packetSize
\* bytes: an input of length L >= packetSize is stored as its first
\* packetSize bytes, an input of length L < packetSize as its L bytes
\* followed by packetSize - L zero bytes; the packets stored before are left
\* as they were.
C26_StoredNormalized ==
  /\ [](\A s \in DOMAIN enc.m_generationPackets :
          Size(enc.m_generationPackets[s]) = packetSize)
  /\ [][\A data \in Payloads, seqNum \in SeqNums :
          (ret'.op = "AddPacket" /\ ret'.val = TRUE /\ AddPacket(data, seqNum)) =>
            LET stored == enc'.m_generationPackets[seqNum]
            IN  /\ DOMAIN stored = 0 .. (packetSize - 1)
                /\ \A i \in 0 .. (packetSize - 1) :
                     stored[i] = IF i < Size(data) THEN data[i] ELSE 0
                /\ \A s \in DOMAIN enc.m_generationPackets :
                     enc'.m_generationPackets[s] = enc.m_generationPackets[s]]_vars

C26_Witness ==
  /\ ret.op = "AddPacket"
  /\ ret.val = TRUE
  /\ \E s \in DOMAIN enc.m_generationPackets :
       /\ Size(enc.m_generationPackets[s]) = packetSize
       /\ enc.m_generationPackets[s][packetSize - 1] = 0

\* C27: the singular-matrix abort of the decode is unreachable behind the
\* rank gate: whenever the stored coefficient matrix has rank generationSize,
\* the pivot loop of DecodeGeneration runs to its end (every pivot found is
\* nonzero, so Inverse gets a nonzero argument), the working coefficient
\* matrix ends as the identity, and the decode sets the decoded flag.
C27_SingularAbortUnreachable ==
  CalculateRank(dec) = generationSize =>
    LET g == GaussJordan(dec.m_coefficients, dec.m_codedPayloads, 0)
    IN  /\ g.ok
        /\ \A i \in Rows : \A j \in Rows :
             g.coeffMatrix[i][j] = IF i = j THEN 1 ELSE 0
        /\ DecodeGeneration([dec EXCEPT !.m_decoded = FALSE]).m_decoded
        /\ dec.m_decoded

C27_Witness ==
  /\ ret.op = "ProcessCodedPacket"
  /\ ret.val = TRUE
  /\ dec.m_decoded
  /\ CalculateRank(dec) = generationSize
  /\ dec.m_coefficients[0][0] = 0
  /\ dec.m_coefficients[1][0] = 2

\* C28: for a well-formed packet of the current generation on a decoder that
\* is not decoded, ProcessCodedPacket returns true exactly when an all-zero
\* coefficient row exists; it then writes the coefficient vector and the
\* payload into the lowest-index all-zero row and changes no other row; it
\* returns true also when the vector is linearly dependent on the stored
\* rows, and GetRank() is then unchanged.
C28_StoredIffEmptyRow ==
  [][(/\ IsPacket(ret)
      /\ ret.val # nullptr
      /\ ret'.op = "ProcessCodedPacket"
      /\ ret.val.generationId = dec.m_currentGeneration
      /\ ~dec.m_decoded
      /\ ProcessCodedPacket(ret.val))
     => LET empty == {i \in Rows : \A j \in Rows : dec.m_coefficients[i][j] = 0}
        IN  /\ ret'.val = (empty # {})
            /\ empty = {} => dec' = dec
            /\ empty # {} =>
                 /\ dec'.m_coefficients[Min(empty)] = ret.val.coefficients
                 /\ dec'.m_codedPayloads[Min(empty)] = ret.val.payload
                 /\ \A i \in Rows \ {Min(empty)} :
                      /\ dec'.m_coefficients[i] = dec.m_coefficients[i]
                      /\ dec'.m_codedPayloads[i] = dec.m_codedPayloads[i]
                 /\ RowSpaceDim(WithRow(dec.m_coefficients,
                                        ret.val.coefficients), Rows)
                      = RowSpaceDim(dec.m_coefficients, Rows)
                    => CalculateRank(dec') = CalculateRank(dec)]_vars

C28_Witness ==
  /\ ret.op = "ProcessCodedPacket"
  /\ ret.val = TRUE
  /\ ~dec.m_decoded
  /\ \A i \in Rows : \E j \in Rows : dec.m_coefficients[i][j] # 0
  /\ CalculateRank(dec) < generationSize

C30_DecodeOnCopies ==
  /\ [](dec.m_decoded => (CalculateRank(dec) = generationSize /\ CanDecode(dec)))
  /\ [][ret'.op = "GetDecodedPackets" =>
          /\ dec'.m_coefficients = dec.m_coefficients
          /\ dec'.m_codedPayloads = dec.m_codedPayloads]_vars
  /\ [][(ret'.op = "ProcessCodedPacket" /\ ~dec.m_decoded /\ dec'.m_decoded) =>
          \E r \in Rows :
            /\ \A i \in Rows \ {r} :
                 /\ dec'.m_coefficients[i] = dec.m_coefficients[i]
                 /\ dec'.m_codedPayloads[i] = dec.m_codedPayloads[i]
            /\ \E p \in CfgPool :
                 /\ dec'.m_coefficients[r] = p.coefficients
                 /\ dec'.m_codedPayloads[r] = Resize(p.payload, dec.m_packetSize)]_vars
  /\ [][(dec.m_decoded /\ dec'.m_currentGeneration = dec.m_currentGeneration) =>
          CanDecode(dec')]_vars

C30_Witness ==
  /\ ret.op = "GetDecodedPackets"
  /\ dec.m_decoded
  /\ dec.m_packetSize = packetSize + 1
  /\ Size(ret.val) = generationSize
  /\ CalculateRank(dec) = generationSize
  /\ dec.m_coefficients[0][1] # 0

(***************************************************************************)
(* SpecShape: a decoder reconfigured by SetGenerationSize and              *)
(* SetPacketSize between packets.                                          *)
(***************************************************************************)
\* generation sizes a caller passes to SetGenerationSize
GenerationSizes == {generationSize - 1, generationSize, generationSize + 1}

\* the decoder holds generationSize rows of generationSize coefficients, the
\* shape on which ProcessCodedPacket, CalculateRank and DecodeGeneration
\* index inside the vectors
IndexesInRange ==
  /\ dec.m_generationSize = generationSize
  /\ Size(dec.m_coefficients) = generationSize
  /\ \A i \in DOMAIN dec.m_coefficients :
       Size(dec.m_coefficients[i]) = generationSize

NextShape ==
  \/ IndexesInRange /\ \E p \in CfgPool : ProcessCodedPacket(p)
  \/ IndexesInRange /\ GetDecodedPackets
  \/ DecoderNextGeneration
  \/ \E newSize \in GenerationSizes : SetGenerationSize(newSize)
  \/ \E newSize \in PacketSizes : SetPacketSize(newSize)
  \/ GetMissingPackets

SpecShape == Init /\ [][NextShape]_vars

\* C31: decoder matrix shape. After any sequence of operations that
\* includes SetGenerationSize and SetPacketSize, the coefficient matrix has
\* exactly generationSize rows of generationSize entries each and the
\* payload matrix has exactly generationSize rows of packetSize bytes each.
C31_MatrixShape ==
  /\ Size(dec.m_coefficients) = dec.m_generationSize
  /\ \A i \in DOMAIN dec.m_coefficients :
       Size(dec.m_coefficients[i]) = dec.m_generationSize
  /\ Size(dec.m_codedPayloads) = dec.m_generationSize
  /\ \A i \in DOMAIN dec.m_codedPayloads :
       Size(dec.m_codedPayloads[i]) = dec.m_packetSize

PopulatedRows(d) ==
  Cardinality({i \in Rows : \E j \in Rows : d.m_coefficients[i][j] # 0})

\* C32: within one generation, for well-formed packets with arbitrary
\* coefficient vectors, every ProcessCodedPacket call that returns true
\* increases the number of populated (nonzero) coefficient rows by exactly
\* one, so that at most generationSize calls return true in a generation.
C32_TrueReturnPopulatesRow ==
  [][(ret'.op = "ProcessCodedPacket" /\ ret'.val = TRUE) =>
       PopulatedRows(dec') = PopulatedRows(dec) + 1]_vars

(***************************************************************************)
(* SpecPartial: an encoder that emits packets while its generation is      *)
(* still filling, and a decoder that receives them.                        *)
(***************************************************************************)
NextPartial ==
  \/ \E seqNum \in SeqNums : AddPacket(SourcePacket(seqNum), seqNum)
  \/ \E draws \in Draws : GenerateCodedPacket(draws)
  \/ \E seqNum \in SeqNums : GenerateUncodedPacket(seqNum)
  \/ IsPacket(ret) /\ ProcessCodedPacket(ret.val)
  \/ GetDecodedPackets

SpecPartial == Init /\ [][NextPartial]_vars

\* C33: a partial generation is never decodable. While every packet the
\* decoder processed came from an encoder holding k < generationSize
\* packets, GetRank() <= k, CanDecode() is false and GetDecodedPackets()
\* stays empty, however many coded packets are processed.
C33_PartialNeverDecodable ==
  /\ CalculateRank(dec) <= GetPacketCount
  /\ GetPacketCount < generationSize =>
       /\ ~CanDecode(dec)
       /\ ~dec.m_decoded
       /\ dec.m_decodedPackets = << >>
       /\ ret.op = "GetDecodedPackets" => ret.val = << >>

C33_Witness ==
  /\ GetPacketCount = generationSize - 1
  /\ ret.op = "GetDecodedPackets"
  /\ ret.val = << >>
  /\ CalculateRank(dec) = generationSize - 1
  /\ \A i \in Rows : \E j \in Rows : dec.m_coefficients[i][j] # 0

\* the coding-vector position the encoder e assigns to the buffered sequence
\* number s: its index in the iteration order of the map
AssignedPosition(e, s) ==
  Cardinality({t \in DOMAIN e.m_generationPackets : t < s})

\* C35: within one generation, the coding-vector position the encoder
\* assigns to a buffered sequence number is the same in every packet it
\* emits for that generation, also after further AddPacket calls that
\* insert other sequence numbers in any order.
C35_PositionStable ==
  [][\A s \in GetSequenceNumbers :
       (/\ enc'.m_currentGeneration = enc.m_currentGeneration
        /\ s \in DOMAIN enc'.m_generationPackets)
       => AssignedPosition(enc', s) = AssignedPosition(enc, s)]_vars

\* C34: on a decoder driven by ProcessCodedPacket, GetDecodedPackets and
\* NextGeneration, after every call the decoded flag is set exactly when
\* GetRank() = generationSize, and the decoded cache holds generationSize
\* packets exactly when the flag is set and is empty otherwise.
C34_DecodedIffFullRank ==
  /\ dec.m_decoded <=> (CalculateRank(dec) = generationSize)
  /\ Size(dec.m_decodedPackets) = IF dec.m_decoded THEN generationSize ELSE 0
  /\ ret.op = "GetRank" => (dec.m_decoded <=> (ret.val = generationSize))

C34_Witness ==
  /\ ret.op = "ProcessCodedPacket"
  /\ ret.val = TRUE
  /\ dec.m_currentGeneration = 1
  /\ dec.m_decoded
  /\ CalculateRank(dec) = generationSize
  /\ Size(dec.m_decodedPackets) = generationSize

(***************************************************************************)
(* SpecRx: a decoder handed packets as bytes, well-formed and malformed.   *)
(***************************************************************************)
\* the bytes of a packet: the serialized header followed by the payload
WireBytesOf(h, payload) ==
  Serialize(h) \o [i \in 1 .. Size(payload) |-> payload[i - 1]]

\* packets of generation 0 as the encoder emits them
GoodWire ==
  {WireBytesOf([m_generationId |-> 0, m_generationSize |-> generationSize,
                m_coefficients |-> p.coefficients], p.payload) :
     p \in {q \in CfgPool : q.generationId = 0}}

\* packets whose header carries a coefficient count other than its
\* generation size, or a generation size of 0 or above 255
MisbuiltWire ==
  {WireBytesOf([m_generationId |-> 0, m_generationSize |-> n,
                m_coefficients |-> c], SourcePacket(0)) :
     n \in {0, generationSize, 256},
     c \in {<< >>, MakeVector([k \in 0 .. (generationSize - 2) |-> 1],
                               generationSize - 1),
            MakeVector([k \in 0 .. generationSize |-> 2], generationSize + 1),
            LongVector(256)}}
    \ GoodWire

\* well-formed packets cut short inside the coefficient bytes
TruncatedWire ==
  {SubSeq(b, 1, m) : b \in GoodWire, m \in 8 .. (8 + generationSize - 1)}

WirePool == GoodWire \cup MisbuiltWire \cup TruncatedWire

\* RemoveHeader on a copy of the packet: the header read and the bytes left
WirePacket(buf) ==
  LET h == Deserialize(buf)
  IN  [generationId |-> h.m_generationId,
       generationSize |-> h.m_generationSize,
       coefficients |-> h.m_coefficients,
       payload |-> MakeVector([i \in 0 .. (Len(buf) - h.val - 1) |->
                                 buf[h.val + 1 + i]],
                              Len(buf) - h.val)]

\* a packet arrives
Receive(buf) ==
  /\ ret' = [op |-> "Receive", val |-> buf]
  /\ UNCHANGED <<enc, dec, app>>

NextRx ==
  \/ \E buf \in WirePool : Receive(buf)
  \/ ret.op = "Receive" /\ ProcessCodedPacket(WirePacket(ret.val))

SpecRx == Init /\ [][NextRx]_vars

\* C36: a packet whose header cannot be deserialized (coefficient count
\* different from generation size, generation size 0 or above 255, or too
\* few coefficient bytes) makes Deserialize return 0 and ProcessCodedPacket
\* return false, and the decoder's matrices, rank, decoded flag, cache and
\* generation ID are unchanged by the call.
C36_BadHeaderRejected ==
  /\ [](ret.op = "Receive" =>
          LET n == ReadNtohU16(ret.val, 4)
          IN  (\/ ReadNtohU16(ret.val, 6) # n
               \/ n = 0
               \/ n > 255
               \/ Len(ret.val) < 8 + n)
              => Deserialize(ret.val).val = 0)
  /\ [][(/\ ret.op = "Receive"
         /\ ret'.op = "ProcessCodedPacket"
         /\ Deserialize(ret.val).val = 0)
        => (/\ ret'.val = FALSE
            /\ dec' = dec
            /\ CalculateRank(dec') = CalculateRank(dec))]_vars

C36_Witness ==
  /\ ret.op = "ProcessCodedPacket"
  /\ ret.val = FALSE
  /\ ~dec.m_decoded
  /\ \E j \in Rows : dec.m_coefficients[0][j] # 0
  /\ \A j \in Rows : dec.m_coefficients[generationSize - 1][j] = 0

(***************************************************************************)
(* NetworkCodingUdpApplication                                             *)
(* (src/model/network-coding-udp-application.cc)                           *)
(*                                                                         *)
(* app holds the fields of the application; enc and dec are its m_encoder  *)
(* and m_decoder.  The counters m_packetsSent, m_packetsReceived and       *)
(* m_innovativePacketsReceived are statistics no branch reads and are not  *)
(* kept.  m_sendEvent counts the pending SendPacket events (a newly        *)
(* scheduled one does not cancel the one before it), m_retransmissionTimer *)
(* says whether the timeout event the EventId names is pending, and        *)
(* staleTimers counts the pending timeout events no EventId names any      *)
(* more.  acksSent counts the ACKs handed to the socket per generation and *)
(* retransmissionBursts the bursts sent since the sending generation last  *)
(* changed.                                                                *)
(***************************************************************************)
\* the NumPackets attribute of the sender: MaxGen full generations and a
\* last generation of one packet
numPackets == generationSize * MaxGen + 1

m_maxRetransmissions == 5

totalGenerationsNeeded(a) ==
  (a.m_numPackets + generationSize - 1) \div generationSize

\* the pattern AddPacketsToCurrentGeneration fills packet i with
OriginalData(i) ==
  MakeVector([j \in 0 .. (packetSize - 1) |-> (i * 123 + j * 7) % 256],
             packetSize)

\* NetworkCodingEncoder::AddPacket on the encoder e
AddPacketTo(e, data, seqNum) ==
  IF BufferFull(e) THEN e
  ELSE IF AlreadyPresent(e, seqNum) THEN e
  ELSE [e EXCEPT !.m_generationPackets = (seqNum :> NormalizePacket(data)) @@ @]

RECURSIVE AddPacketsFrom(_, _, _, _)
\* the loop of AddPacketsToCurrentGeneration from packet i on
AddPacketsFrom(e, i, startPacket, endPacket) ==
  IF i >= endPacket THEN e
  ELSE AddPacketsFrom(AddPacketTo(e, OriginalData(i), i - startPacket),
                      i + 1, startPacket, endPacket)

AddPacketsToCurrentGeneration(a, e, generationId) ==
  LET startPacket == generationId * generationSize
      endPacket == Min({startPacket + generationSize, a.m_numPackets})
  IN  AddPacketsFrom(e, startPacket, startPacket, endPacket)

\* NetworkCodingEncoder::NextGeneration on the encoder e
NextGenerationOfEncoder(e) ==
  [m_generationPackets |-> << >>,
   m_currentGeneration |-> e.m_currentGeneration + 1]

packetsNeededInCurrentGeneration(a) ==
  IF a.m_currentGenerationSent = totalGenerationsNeeded(a) - 1
  THEN a.m_numPackets - a.m_currentGenerationSent * generationSize
  ELSE generationSize

IsCurrentGenerationComplete(a) ==
  IF a.m_currentGenerationSent >= totalGenerationsNeeded(a) THEN TRUE
  ELSE a.m_packetsInCurrentGeneration >= packetsNeededInCurrentGeneration(a)

\* ScheduleNext: one more SendPacket event when there is something to send
ScheduleNext(a) ==
  IF /\ a.m_running
     /\ a.m_currentGenerationSent < totalGenerationsNeeded(a)
     /\ a.m_packetsInCurrentGeneration < packetsNeededInCurrentGeneration(a)
     /\ ~a.m_waitingForGenerationAck
  THEN [a EXCEPT !.m_sendEvent = @ + 1]
  ELSE a

\* Simulator::Schedule (m_generationTimeout, HandleGenerationTimeout): the
\* EventId now names the new event, a pending older one stays pending
ScheduleTimeout(a) ==
  [a EXCEPT !.m_retransmissionTimer = TRUE,
            !.staleTimers = IF a.m_retransmissionTimer THEN @ + 1 ELSE @]

StartApplication ==
  /\ ~app.m_running
  /\ LET started == [NewApplication(app.m_numPackets) EXCEPT !.m_running = TRUE]
     IN  IF app.m_numPackets = 0
         THEN /\ app' = started
              /\ enc' = NewEncoder
         ELSE /\ app' = ScheduleNext(started)
              /\ enc' = AddPacketsToCurrentGeneration(started, NewEncoder, 0)
  /\ dec' = NewDecoder
  /\ ret' = [op |-> "StartApplication", val |-> TRUE]

(***************************************************************************)
(* The receiving side: HandleRead on a coded packet.                       *)
(***************************************************************************)
RECURSIVE NextGenerations(_, _)
\* k calls of NetworkCodingDecoder::NextGeneration on the decoder d
NextGenerations(d, k) ==
  IF k = 0 THEN d ELSE NextGenerations(NextGenerationOf(d), k - 1)

\* mutant: no packet counts as one of a newer generation
NewerGenerationNever(a, generationId) == FALSE

\* the packet's generation is ahead of the receiver's
NewerGeneration(a, generationId) == generationId > a.m_currentGeneration

\* ProcessRealCodedPacket: whether the packet reached the decoder, the
\* generation the decoder had when it did, the value returned, and the
\* receiver's generation, packet count and decoder afterwards
ProcessRealCodedPacket(a, d, p) ==
  LET generationId == p.generationId
  IN  IF generationId # a.m_currentGeneration
      THEN IF NewerGeneration(a, generationId)
           THEN LET fresh == NextGenerations(NewDecoder, generationId)
                    result == ProcessCodedPacketOn(fresh, p)
                IN  [handed |-> TRUE,
                     decoderGeneration |-> fresh.m_currentGeneration,
                     val |-> result.val,
                     m_currentGeneration |-> generationId,
                     m_generationPacketCount |-> 0,
                     decoder |-> result.decoder]
           ELSE [handed |-> FALSE,
                 decoderGeneration |-> d.m_currentGeneration,
                 val |-> FALSE,
                 m_currentGeneration |-> a.m_currentGeneration,
                 m_generationPacketCount |-> a.m_generationPacketCount,
                 decoder |-> d]
      ELSE LET result == ProcessCodedPacketOn(d, p)
           IN  [handed |-> TRUE,
                decoderGeneration |-> d.m_currentGeneration,
                val |-> result.val,
                m_currentGeneration |-> a.m_currentGeneration,
                m_generationPacketCount |-> a.m_generationPacketCount,
                decoder |-> result.decoder]

\* mutant: the generation is acknowledged whenever the decoder can decode
GenerationDecodedWhenever(isInnovative, d) == CanDecode(d)

\* HandleRead's test for a newly decoded generation: the packet was
\* innovative and the decoder can decode
GenerationDecoded(isInnovative, d) == isInnovative /\ CanDecode(d)

\* NetworkCodingDecoder::GetDecodedPackets on the decoder d
GetDecodedPacketsOn(d) ==
  IF ~d.m_decoded /\ CanDecode(d) THEN DecodeGeneration(d) ELSE d

\* HandleRead on one received coded packet p
HandleRead(p) ==
  /\ app.m_running
  /\ \E processed \in {ProcessRealCodedPacket(app, dec, p)} :
       \E decoded \in {GenerationDecoded(processed.val, processed.decoder)} :
         /\ dec' = IF decoded THEN GetDecodedPacketsOn(processed.decoder)
                   ELSE processed.decoder
         /\ app' = [app EXCEPT
                      !.m_currentGeneration = processed.m_currentGeneration,
                      !.m_generationPacketCount =
                         IF decoded THEN 0
                         ELSE IF processed.val
                              THEN processed.m_generationPacketCount + 1
                              ELSE processed.m_generationPacketCount,
                      !.m_generationsDecoded = IF decoded THEN @ + 1 ELSE @,
                      !.acksSent[processed.m_currentGeneration] =
                         IF decoded THEN @ + 1 ELSE @]
         /\ ret' = [op |-> "HandleRead",
                    val |-> processed.val,
                    generationId |-> p.generationId,
                    handed |-> processed.handed,
                    decoderGeneration |-> processed.decoderGeneration,
                    ack |-> decoded]
  /\ UNCHANGED enc

\* the coded packets that reach the receiver, in any order and any number
\* of times: every generation, every coefficient vector an encoder with a
\* full buffer draws
NextReceiver ==
  \/ StartApplication
  \/ \E p \in CfgPool : HandleRead(p)

SpecReceiver == Init /\ [][NextReceiver]_vars

\* C38: whenever the receiver hands a packet to its decoder, the decoder's
\* generation ID equals the receiver's current generation and the packet's
\* generation ID; a packet of a newer generation first replaces the decoder
\* by an empty one at that generation, so that afterwards the decoder holds
\* that packet alone; a packet of an older generation is dropped without
\* reaching the decoder and changes nothing; the receiver's current
\* generation never decreases.
C38_GenerationTracking ==
  /\ [](app.m_running => dec.m_currentGeneration = app.m_currentGeneration)
  /\ []((ret.op = "HandleRead" /\ ret.handed)
        => /\ ret.decoderGeneration = ret.generationId
           /\ ret.decoderGeneration = app.m_currentGeneration)
  /\ [][ret'.op = "HandleRead"
        => LET generationId == ret'.generationId
           IN  /\ app'.m_currentGeneration >= app.m_currentGeneration
               /\ generationId > app.m_currentGeneration
                  => /\ ret'.handed
                     /\ app'.m_currentGeneration = generationId
                     /\ dec'.m_currentGeneration = generationId
                     /\ PopulatedRows(dec') <= 1
                     /\ \A i \in Rows \ {0} :
                          /\ \A j \in Rows : dec'.m_coefficients[i][j] = 0
                          /\ \A j \in 0 .. (packetSize - 1) :
                               dec'.m_codedPayloads[i][j] = 0
                     /\ ~dec'.m_decoded
               /\ generationId < app.m_currentGeneration
                  => /\ ~ret'.handed
                     /\ ~ret'.val
                     /\ dec' = dec
                     /\ app' = app]_vars

C38_Witness ==
  /\ ret.op = "HandleRead"
  /\ ret.handed
  /\ ret.val
  /\ ret.generationId = MaxGen
  /\ app.m_currentGeneration = MaxGen
  /\ app.m_generationsDecoded = 0
  /\ PopulatedRows(dec) = 1

\* C39: for each generation ID the receiver increments its
\* decoded-generations counter and sends an ACK at most once, whatever the
\* order and repetition of the coded packets it receives: a packet of a
\* generation already acknowledged is reported non-innovative, sends no ACK
\* and leaves the counter alone.
C39_AckOncePerGeneration ==
  /\ [](\A g \in 0 .. MaxGen : app.acksSent[g] <= 1)
  /\ [](app.m_generationsDecoded =
          Cardinality({g \in 0 .. MaxGen : app.acksSent[g] > 0}))
  /\ [][(/\ ret'.op = "HandleRead"
         /\ app.acksSent[ret'.generationId] >= 1)
        => /\ ~ret'.val
           /\ ~ret'.ack
           /\ app'.acksSent = app.acksSent
           /\ app'.m_generationsDecoded = app.m_generationsDecoded]_vars

C39_Witness ==
  /\ ret.op = "HandleRead"
  /\ ret.handed
  /\ ~ret.val
  /\ \A g \in 0 .. MaxGen : app.acksSent[g] = 1
  /\ app.m_generationsDecoded = MaxGen + 1

(***************************************************************************)
(* The sending side: SendPacket, HandleGenerationTimeout and HandleAck.    *)
(* A packet handed to the socket is followed by its header's generation   *)
(* ID and generation size; the coefficients GenerateCodedPacket draws and  *)
(* the payload they give are not followed here.                            *)
(***************************************************************************)
\* SendRealCodedPacket (generationId), count times: the packets handed to
\* SendTo
SendRealCodedPacket(a, e, generationId, count) ==
  IF generationId >= totalGenerationsNeeded(a) THEN << >>
  ELSE IF BufferEmpty(e) THEN << >>
  ELSE [i \in 1 .. count |-> [generationId |-> generationId,
                              generationSize |-> generationSize]]

\* MoveToNextGeneration: the application and the encoder afterwards
MoveToNextGeneration(a, e) ==
  LET moved == [a EXCEPT !.m_currentGenerationSent = @ + 1,
                         !.m_packetsInCurrentGeneration = 0,
                         !.retransmissionBursts = 0]
      cleared == NextGenerationOfEncoder(e)
  IN  [application |-> moved,
       encoder |-> IF moved.m_currentGenerationSent
                        < totalGenerationsNeeded(moved)
                   THEN AddPacketsToCurrentGeneration(
                          moved, cleared, moved.m_currentGenerationSent)
                   ELSE cleared]

\* the values SendTo returns: nothing sent, or the bytes of the packet
SendToResults == {0, packetSize}

\* a pending SendPacket event fires
SendPacket ==
  /\ app.m_sendEvent > 0
  /\ \E actual \in SendToResults :
       LET fired == [app EXCEPT !.m_sendEvent = @ - 1]
       IN  IF \/ ~fired.m_running
              \/ fired.m_currentGenerationSent >= totalGenerationsNeeded(fired)
           THEN /\ app' = fired
                /\ ret' = [op |-> "SendPacket", val |-> << >>]
           ELSE IF /\ fired.m_waitingForGenerationAck
                   /\ IsCurrentGenerationComplete(fired)
           THEN /\ app' = fired
                /\ ret' = [op |-> "SendPacket", val |-> << >>]
           ELSE LET sent == SendRealCodedPacket(
                              fired, enc, fired.m_currentGenerationSent, 1)
                    after ==
                      IF /\ sent # << >>
                         /\ actual > 0
                         /\ ~fired.m_waitingForGenerationAck
                      THEN [fired EXCEPT !.m_packetsInCurrentGeneration = @ + 1]
                      ELSE fired
                IN  /\ app' = IF IsCurrentGenerationComplete(after)
                              THEN ScheduleTimeout(
                                     [after EXCEPT
                                        !.m_waitingForGenerationAck = TRUE])
                              ELSE ScheduleNext(after)
                    /\ ret' = [op |-> "SendPacket", val |-> sent]
  /\ UNCHANGED <<enc, dec>>

\* a pending timeout event fires: the one m_retransmissionTimer names
\* (named) or one scheduled before it
HandleGenerationTimeout ==
  \E named \in BOOLEAN :
    /\ IF named THEN app.m_retransmissionTimer ELSE app.staleTimers > 0
    /\ LET fired == IF named
                    THEN [app EXCEPT !.m_retransmissionTimer = FALSE]
                    ELSE [app EXCEPT !.staleTimers = @ - 1]
           count == fired.m_retransmissionCount + 1
       IN  IF ~fired.m_waitingForGenerationAck
           THEN /\ app' = fired
                /\ ret' = [op |-> "HandleGenerationTimeout", val |-> << >>]
                /\ UNCHANGED enc
           ELSE IF count < m_maxRetransmissions
           THEN /\ app' = ScheduleTimeout(
                            [fired EXCEPT !.m_retransmissionCount = count,
                                          !.retransmissionBursts = @ + 1])
                /\ ret' = [op |-> "HandleGenerationTimeout",
                           val |-> SendRealCodedPacket(
                                     fired, enc, fired.m_currentGenerationSent,
                                     generationSize)]
                /\ UNCHANGED enc
           ELSE LET reset == [fired EXCEPT !.m_waitingForGenerationAck = FALSE,
                                           !.m_retransmissionCount = 0]
                    moved == MoveToNextGeneration(reset, enc)
                IN  /\ IF reset.m_currentGenerationSent + 1
                            < totalGenerationsNeeded(reset)
                       THEN /\ app' = ScheduleNext(moved.application)
                            /\ enc' = moved.encoder
                       ELSE /\ app' = reset
                            /\ UNCHANGED enc
                    /\ ret' = [op |-> "HandleGenerationTimeout",
                               val |-> << >>]
    /\ UNCHANGED dec

\* mutant: every ACK counts as one for the current sending generation
AckMatchesAny(a, ackedGeneration) == TRUE

\* HandleAck's test: the ACK names the current sending generation
AckMatches(a, ackedGeneration) == ackedGeneration = a.m_currentGenerationSent

\* HandleRead on an ACK packet naming ackedGeneration
HandleAck(ackedGeneration) ==
  /\ app.m_running
  /\ IF AckMatches(app, ackedGeneration)
     THEN LET reset == [app EXCEPT !.m_waitingForGenerationAck = FALSE,
                                   !.m_retransmissionCount = 0,
                                   !.m_retransmissionTimer = FALSE]
              moved == MoveToNextGeneration(reset, enc)
          IN  IF reset.m_currentGenerationSent + 1
                   < totalGenerationsNeeded(reset)
              THEN /\ app' = ScheduleNext(moved.application)
                   /\ enc' = moved.encoder
              ELSE /\ app' = reset
                   /\ UNCHANGED enc
     ELSE UNCHANGED <<app, enc>>
  /\ ret' = [op |-> "HandleAck", val |-> ackedGeneration]
  /\ UNCHANGED dec

\* the generation IDs an arriving ACK may name
AckedGenerations == 0 .. (MaxGen + 1)

InitSender ==
  /\ EncoderInit
  /\ DecoderInit
  /\ ret = [op |-> "Create", val |-> TRUE]
  /\ app = NewApplication(numPackets)

NextSender ==
  \/ StartApplication
  \/ SendPacket
  \/ HandleGenerationTimeout
  \/ \E ackedGeneration \in AckedGenerations : HandleAck(ackedGeneration)

SpecSender == InitSender /\ [][NextSender]_vars

IsAdvance == app'.m_currentGenerationSent # app.m_currentGenerationSent

====
